---- MODULE Spec2Model ----
(***************************************************************************)
(* Extraction orchestration and content-addressed OCR cache of             *)
(* ocr_scanner_gemini:                                                     *)
(*   TextExtractionService.extract   (application/text_extraction_service) *)
(*   FileManager                     (infrastructure/file_manager)         *)
(*   GeminiTextExtractor             (infrastructure/text_extractors)      *)
(*   clear_cache                     (presentation/routes)                 *)
(* Every request thread of the web server is a caller; the four inference  *)
(* sub-tasks of a call run on the call's own ThreadPoolExecutor.           *)
(***************************************************************************)
EXTENDS Integers, Sequences, FiniteSets, TLC

----------------------------------------------------------------------------
(* Bounds of the model *)

\* extract requests the client of Spec sends
MaxCalls == 2
\* clear_cache requests served
MaxClears == 1
\* tokens one flush of the buffered cache-file writer hands to the OS
BufSize == 4
\* save_ocr_cache calls made on the store of SpecStore besides those of extract
MaxPuts == 2

----------------------------------------------------------------------------
(* Values *)

Callers == {"c1", "c2"}
SeqCallers == {"c1"}

LabelOrder == <<"ascii", "markdown", "description", "seo">>
Labels == {LabelOrder[i] : i \in 1..Len(LabelOrder)}
FieldOrder == <<"ascii_diagram", "markdown_text", "description", "seo_keywords">>
Fields == {FieldOrder[i] : i \in 1..Len(FieldOrder)}

FieldOf(k) ==
  CASE k = "ascii" -> "ascii_diagram"
    [] k = "markdown" -> "markdown_text"
    [] k = "description" -> "description"
    [] k = "seo" -> "seo_keywords"

\* one visible character of the text a sub-task's prompt asks for
Letter(k) ==
  CASE k = "ascii" -> "A"
    [] k = "markdown" -> "M"
    [] k = "description" -> "D"
    [] k = "seo" -> "S"

Max(a, b) == IF a > b THEN a ELSE b
Min(a, b) == IF a < b THEN a ELSE b

----------------------------------------------------------------------------
(* Paths and file contents *)

Absent == "absent"
Contents == {"b1", "b2", "b3"}

SamplePath(name) == [dir |-> "sample_images", name |-> name]
UploadPath(name) == [dir |-> "static/uploads", name |-> name]
ServePath(name) == [dir |-> "/sample_images_serve/", name |-> name]

ImagePaths == {SamplePath("s1"), UploadPath("u1"), UploadPath("u2"), UploadPath("u3")}
\* what a client may send as the 'path' form field
Ids == {ServePath("s1"), UploadPath("u1"), UploadPath("u2"), UploadPath("u3")}

\* FileManager.resolve_serve_path
ResolveServePath(serve_path) ==
  IF serve_path.dir = "/sample_images_serve/"
  THEN SamplePath(serve_path.name)
  ELSE serve_path

\* hashlib.md5(...).hexdigest() of a byte content
Md5Hex(bytes) ==
  CASE bytes = "b1" -> "h1"
    [] bytes = "b2" -> "h2"
    [] bytes = "b3" -> "h3"

Hashes == {Md5Hex(b) : b \in Contents}

\* FileManager.get_cache_path
GetCachePath(file_hash) == [dir |-> "static/processed", name |-> file_hash, ext |-> ".json"]

CachePaths == {GetCachePath(h) : h \in Hashes}

\* PIL can open the content and save it as JPEG
Loadable(bytes) == bytes \in {"b1", "b2"}

\* GeminiTextExtractor._load_image_bytes: the JPEG re-encoding of a content
JpegOf(bytes) ==
  CASE bytes = "b1" -> "jpeg1"
    [] bytes = "b2" -> "jpeg2"
    [] OTHER -> "nojpeg"

----------------------------------------------------------------------------
(* Text *)

RECURSIVE LStrip(_)
LStrip(s) == IF s # <<>> /\ Head(s) = " " THEN LStrip(Tail(s)) ELSE s

RECURSIVE RStrip(_)
RStrip(s) == IF s # <<>> /\ s[Len(s)] = " " THEN RStrip(SubSeq(s, 1, Len(s) - 1)) ELSE s

\* str.strip()
Strip(s) == RStrip(LStrip(s))

\* A backend response: generate_content raised, or returned a response whose
\* .text is None, or returned text.
RespError == [kind |-> "error", text |-> <<>>]
RespNoText == [kind |-> "notext", text |-> <<>>]
RespText(s) == [kind |-> "text", text |-> s]
NoResp == [kind |-> "none", text |-> <<>>]

\* what generate_content may answer to the prompt of sub-task k
Responses(k) ==
  {RespError, RespNoText,
   RespText(<<Letter(k)>>), RespText(<<" ", Letter(k)>>), RespText(<<" ">>)}

\* the answers enumerated when one client sends requests one after another
SeqResponses(k) == {RespError, RespText(<<" ", Letter(k)>>)}

\* the answers enumerated when two requests run concurrently
ConcResponses(k) ==
  IF k = "ascii"
  THEN {RespText(<<"A">>), RespText(<<"A", "A">>)}
  ELSE {RespText(<<Letter(k)>>)}

----------------------------------------------------------------------------
(* Records and their serialized form *)

EmptyDict == [f \in {} |-> <<>>]
BlankRecord == [f \in Fields |-> <<>>]

\* TextExtractionResult.to_dict()
ToDict(result) == [f \in Fields |-> result[f]]

\* bool(result) of a TextExtractionResult, line 67 of the service
Truthy(result) == TRUE

RECURSIVE DumpFields(_, _)
DumpFields(d, i) ==
  IF i > Len(FieldOrder) THEN <<>>
  ELSE (IF FieldOrder[i] \in DOMAIN d THEN <<FieldOrder[i]>> \o d[FieldOrder[i]] ELSE <<>>)
       \o DumpFields(d, i + 1)

\* mutant: the writer trims the texts it writes
JsonDumpTrimmed(d) ==
  <<"{">> \o DumpFields([f \in DOMAIN d |-> Strip(d[f])], 1) \o <<"}">>

\* json.dump(data, f, ensure_ascii=False, indent=2): the text of the file as a
\* sequence of tokens: "{", then for each key the key token followed by the
\* characters of its string value, then "}".
JsonDump(d) == <<"{">> \o DumpFields(d, 1) \o <<"}">>

ParseFailed == [ok |-> FALSE, d |-> EmptyDict]

JsonWellFormed(s) ==
  /\ Len(s) >= 2
  /\ s[1] = "{"
  /\ s[Len(s)] = "}"
  /\ \A i \in 2..(Len(s) - 1) : s[i] \notin {"{", "}", "NUL"}
  /\ (Len(s) > 2 => s[2] \in Fields)

\* the characters that follow the key token at position i
JsonValueAt(s, i) ==
  LET stops == {j \in (i + 1)..Len(s) : s[j] \in Fields \/ j = Len(s)}
      stop == CHOOSE j \in stops : \A j2 \in stops : j <= j2
  IN SubSeq(s, i + 1, stop - 1)

\* json.load(f): a dict, or a JSONDecodeError. A repeated key keeps its last
\* value.
JsonLoad(s) ==
  IF ~JsonWellFormed(s) THEN ParseFailed
  ELSE LET keys == {s[i] : i \in 2..(Len(s) - 1)} \cap Fields
           last(f) == CHOOSE i \in 2..(Len(s) - 1) :
                        s[i] = f /\ \A j \in (i + 1)..(Len(s) - 1) : s[j] # f
       IN [ok |-> TRUE, d |-> [f \in keys |-> JsonValueAt(s, last(f))]]

\* json.load(f) returns a list: the text is a JSON array
JsonIsArray(s) ==
  /\ Len(s) >= 2
  /\ s[1] = "["
  /\ s[Len(s)] = "]"
  /\ \A i \in 2..(Len(s) - 1) : s[i] \notin {"{", "}", "[", "]", "NUL"}

\* mutant: a missing key reads as the text "N"
DictGetNone(d, f) == IF f \in DOMAIN d THEN d[f] ELSE <<"N">>

\* dict.get(key, '')
DictGet(d, f) == IF f \in DOMAIN d THEN d[f] ELSE <<>>

\* a cache file
NoFile == [exists |-> FALSE, data |-> <<>>]
FileOf(data) == [exists |-> TRUE, data |-> data]

\* pwrite of chunk at offset off; a gap left by a truncation reads as NUL
WriteAt(data, off, chunk) ==
  [i \in 1..Max(Len(data), off + Len(chunk)) |->
     IF i > off /\ i <= off + Len(chunk) THEN chunk[i - off]
     ELSE IF i <= Len(data) THEN data[i] ELSE "NUL"]

\* a record of four texts, by the text of its first field
RecordWith(ascii) ==
  [f \in Fields |->
     CASE f = "ascii_diagram" -> ascii
       [] f = "markdown_text" -> <<"M">>
       [] f = "description" -> <<"D">>
       [] f = "seo_keywords" -> <<"S">>]

\* the dicts handed to save_ocr_cache in SpecStore
StoreRecords == {BlankRecord, RecordWith(<<"A">>), RecordWith(<<" ", "A", "A">>)}

\* what a file of static/processed may hold when the server starts: an
\* empty file, a truncated record, the documents {} and [], a non-empty
\* array, an object with one of the four fields, a complete record
StoredContents ==
  {<<>>,
   <<"{", "ascii_diagram", "A">>,
   <<"{", "}">>,
   <<"[", "]">>,
   <<"[", "A", "]">>,
   <<"{", "ascii_diagram", "A", "}">>,
   JsonDump(RecordWith(<<"A">>))}

----------------------------------------------------------------------------
(* State *)

VARIABLES
  files,    \* image files: path -> byte content, or Absent
  cache,    \* static/processed: cache path -> cache file
  genai,    \* whether the google.genai package can be imported
  client,   \* GeminiTextExtractor._client: 0 is None, else the client's number
  made,     \* clients constructed so far
  t,        \* per request thread: the frame of its extract call
  log,      \* per request thread: what its finished calls returned
  clr,      \* the clear_cache request
  lastPut   \* per cache path: the thread whose save_ocr_cache returned last

vars == <<files, cache, genai, client, made, t, log, clr, lastPut>>

NoDict == [ok |-> FALSE, d |-> EmptyDict]
NoResult == [ok |-> FALSE, d |-> BlankRecord]
NoObs == [read |-> FALSE, data |-> <<>>]

\* the frame of a thread that is not inside extract
Fresh ==
  [pc |-> "idle",
   id |-> UploadPath("u1"), path |-> UploadPath("u1"),
   key |-> "", key0 |-> "", cached |-> NoDict, img |-> "",
   idx |-> 0,
   task |-> [k \in Labels |-> "none"],
   raw |-> [k \in Labels |-> NoResp],
   ret |-> [k \in Labels |-> <<>>],
   exc |-> FALSE,
   result |-> NoResult,
   buf |-> <<>>, woff |-> 0, wlive |-> FALSE,
   nGet |-> 0, nPut |-> 0, nInfer |-> 0,
   obs |-> NoObs,
   bytes0 |-> Absent, rec0 |-> NoFile, clears0 |-> 0,
   out |-> [kind |-> "pending", d |-> BlankRecord]]

InitFiles(u2) ==
  [p \in ImagePaths |->
     CASE p = SamplePath("s1") -> "b1"
       [] p = UploadPath("u1") -> "b1"
       [] p = UploadPath("u2") -> u2
       [] OTHER -> Absent]

Init ==
  /\ \E u2 \in {"b2", "b3"} : files = InitFiles(u2)
  /\ cache = [p \in CachePaths |-> NoFile]
  /\ genai \in BOOLEAN
  /\ client = 0
  /\ made = 0
  /\ t = [c \in Callers |-> Fresh]
  /\ log = [c \in Callers |-> <<>>]
  /\ clr = [pc |-> "idle", todo |-> {}, n |-> 0]
  /\ lastPut = [p \in CachePaths |-> "none"]

\* a server that has served extractions before: where the package is
\* installed the client has been constructed
InitServed ==
  /\ \E u2 \in {"b2", "b3"} : files = InitFiles(u2)
  /\ cache = [p \in CachePaths |-> NoFile]
  /\ genai \in BOOLEAN
  /\ client = (IF genai THEN 1 ELSE 0)
  /\ made = client
  /\ t = [c \in Callers |-> Fresh]
  /\ log = [c \in Callers |-> <<>>]
  /\ clr = [pc |-> "idle", todo |-> {}, n |-> 0]
  /\ lastPut = [p \in CachePaths |-> "none"]

\* two requests arrive at a server that has served extractions before
InitConc ==
  /\ files = InitFiles("b2")
  /\ cache = [p \in CachePaths |-> NoFile]
  /\ genai = TRUE
  /\ client = 1
  /\ made = 1
  /\ t = [c \in Callers |-> Fresh]
  /\ log = [c \in Callers |-> <<>>]
  /\ clr = [pc |-> "idle", todo |-> {}, n |-> 0]
  /\ lastPut = [p \in CachePaths |-> "none"]

\* a server that starts on a static/processed directory left by earlier
\* runs: the file of digest h1 holds any of StoredContents
InitStore ==
  /\ files = InitFiles("b2")
  /\ \E x \in StoredContents :
       cache = [p \in CachePaths |-> IF p = GetCachePath("h1") THEN FileOf(x) ELSE NoFile]
  /\ genai = TRUE
  /\ client = 1
  /\ made = 1
  /\ t = [c \in Callers |-> Fresh]
  /\ log = [c \in Callers |-> <<>>]
  /\ clr = [pc |-> "idle", todo |-> {}, n |-> 0]
  /\ lastPut = [p \in CachePaths |-> "none"]

\* a server that has served extractions before and may hold the record of
\* the content b1
InitEnv ==
  /\ files = InitFiles("b2")
  /\ \E x \in {NoFile, FileOf(JsonDump(RecordWith(<<"A">>)))} :
       cache = [p \in CachePaths |-> IF p = GetCachePath("h1") THEN x ELSE NoFile]
  /\ genai = TRUE
  /\ client = 1
  /\ made = 1
  /\ t = [c \in Callers |-> Fresh]
  /\ log = [c \in Callers |-> <<>>]
  /\ clr = [pc |-> "idle", todo |-> {}, n |-> 0]
  /\ lastPut = [p \in CachePaths |-> "none"]

----------------------------------------------------------------------------
(* TextExtractionService.extract *)

Goto(c, tc) == /\ t' = [t EXCEPT ![c] = tc]
               /\ UNCHANGED log

\* what a finished call leaves in the log
Summary(tc, kind, d) ==
  [id |-> tc.id, bytes |-> tc.bytes0, rec0 |-> tc.rec0,
   kind |-> kind, d |-> d,
   nGet |-> tc.nGet, nPut |-> tc.nPut, nInfer |-> tc.nInfer,
   nTasks |-> Cardinality({k \in Labels : tc.task[k] # "none"}),
   clears0 |-> tc.clears0, clears1 |-> clr.n]

\* extract returns (kind "result" or "none") or lets an exception out
\* (kind "raised")
Return(c, tc, kind, d) ==
  /\ t' = [t EXCEPT ![c] = [tc EXCEPT !.pc = "idle", !.out = [kind |-> kind, d |-> d]]]
  /\ log' = [log EXCEPT ![c] = Append(@, Summary(tc, kind, d))]

\* mutant: a digest of the file's name instead of its bytes
CalculateMd5OfName(filepath) ==
  CASE filepath.name = "s1" -> "h1"
    [] filepath.name = "u1" -> "h2"
    [] OTHER -> "h3"

\* FileManager.calculate_md5 of a file that can be read
CalculateMd5(filepath) == Md5Hex(files[filepath])

\* the cache file that belongs to a byte content
RecordOf(bytes) == IF bytes = Absent THEN NoFile ELSE cache[GetCachePath(Md5Hex(bytes))]

\* line 47: a request thread enters extract. bytes0, rec0 and clears0 note
\* what the file and the store held when the call began.
ExtractCall(c, id) ==
  /\ t[c].pc = "idle"
  /\ Goto(c, [Fresh EXCEPT !.pc = "file_exists", !.id = id,
                           !.path = ResolveServePath(id),
                           !.bytes0 = files[ResolveServePath(id)],
                           !.rec0 = RecordOf(files[ResolveServePath(id)]),
                           !.clears0 = clr.n])
  /\ UNCHANGED <<files, cache, genai, client, made, clr, lastPut>>

\* mutant: the existence test is skipped
FileExistsUnchecked(c) ==
  /\ t[c].pc = "file_exists"
  /\ Goto(c, [t[c] EXCEPT !.pc = "gc_md5"])
  /\ UNCHANGED <<files, cache, genai, client, made, clr, lastPut>>

\* lines 50-51: file_exists
FileExists(c) ==
  /\ t[c].pc = "file_exists"
  /\ IF files[t[c].path] # Absent
     THEN Goto(c, [t[c] EXCEPT !.pc = "gc_md5"])
     ELSE Return(c, t[c], "none", BlankRecord)
  /\ UNCHANGED <<files, cache, genai, client, made, clr, lastPut>>

\* get_ocr_cache, line 157: calculate_md5; an unreadable file is caught at
\* line 162 and get_ocr_cache returns None. key0 notes the digest looked up.
GetOcrCacheMd5(c) ==
  /\ t[c].pc = "gc_md5"
  /\ IF files[t[c].path] # Absent
     THEN Goto(c, [t[c] EXCEPT !.pc = "gc_exists", !.nGet = @ + 1,
                     !.key = CalculateMd5(t[c].path),
                     !.key0 = CalculateMd5(t[c].path)])
     ELSE Goto(c, [t[c] EXCEPT !.pc = "load", !.nGet = @ + 1, !.cached = NoDict])
  /\ UNCHANGED <<files, cache, genai, client, made, clr, lastPut>>

\* get_ocr_cache, line 159: os.path.exists(cache_path)
GetOcrCacheExists(c) ==
  /\ t[c].pc = "gc_exists"
  /\ IF cache[GetCachePath(t[c].key)].exists
     THEN Goto(c, [t[c] EXCEPT !.pc = "gc_load"])
     ELSE Goto(c, [t[c] EXCEPT !.pc = "load", !.cached = NoDict])
  /\ UNCHANGED <<files, cache, genai, client, made, clr, lastPut>>

\* the result extract builds from a cached dict, lines 56-61
FromCached(d) == [f \in Fields |-> DictGet(d, f)]

\* mutant: what the cache returned is not used
GetOcrCacheLoadIgnored(c) ==
  /\ t[c].pc = "gc_load"
  /\ LET file == cache[GetCachePath(t[c].key)]
         got == IF file.exists THEN JsonLoad(file.data) ELSE NoDict
         seen == IF file.exists THEN [read |-> TRUE, data |-> file.data] ELSE NoObs
     IN Goto(c, [t[c] EXCEPT !.cached = got, !.obs = seen, !.pc = "load"])
  /\ UNCHANGED <<files, cache, genai, client, made, clr, lastPut>>

\* mutant: a cached dict with an empty text counts as a miss
GetOcrCacheLoadFullOnly(c) ==
  /\ t[c].pc = "gc_load"
  /\ LET file == cache[GetCachePath(t[c].key)]
         got == IF file.exists THEN JsonLoad(file.data) ELSE NoDict
         seen == IF file.exists THEN [read |-> TRUE, data |-> file.data] ELSE NoObs
         tc == [t[c] EXCEPT !.cached = got, !.obs = seen]
     IN IF got.ok /\ DOMAIN got.d # {} /\ \A f \in DOMAIN got.d : got.d[f] # <<>>
        THEN Return(c, tc, "result", FromCached(got.d))
        ELSE Goto(c, [tc EXCEPT !.pc = "load"])
  /\ UNCHANGED <<files, cache, genai, client, made, clr, lastPut>>

\* get_ocr_cache, lines 160-164: open and json.load, then the test of
\* line 55 of extract on what get_ocr_cache returned. A non-empty list is
\* truthy and has no .get: line 57 raises AttributeError out of extract.
GetOcrCacheLoad(c) ==
  /\ t[c].pc = "gc_load"
  /\ LET file == cache[GetCachePath(t[c].key)]
         got == IF file.exists THEN JsonLoad(file.data) ELSE NoDict
         seen == IF file.exists THEN [read |-> TRUE, data |-> file.data] ELSE NoObs
         tc == [t[c] EXCEPT !.cached = got, !.obs = seen]
     IN IF got.ok /\ DOMAIN got.d # {}
        THEN Return(c, tc, "result", FromCached(got.d))
        ELSE IF file.exists /\ JsonIsArray(file.data) /\ Len(file.data) > 2
        THEN Return(c, tc, "raised", BlankRecord)
        ELSE Goto(c, [tc EXCEPT !.pc = "load"])
  /\ UNCHANGED <<files, cache, genai, client, made, clr, lastPut>>

----------------------------------------------------------------------------
(* GeminiTextExtractor.extract *)

\* the except clause of lines 232-234, and lines 67-70 of the service on None
ExtractorFailed(c, tc) == Return(c, tc, "none", BlankRecord)

\* mutant: a failure of _load_image_bytes is not noticed
LoadImageBytesUnchecked(c) ==
  /\ t[c].pc = "load"
  /\ IF files[t[c].path] # Absent
     THEN Goto(c, [t[c] EXCEPT !.pc = "submit", !.idx = 1,
                     !.img = JpegOf(files[t[c].path])])
     ELSE ExtractorFailed(c, t[c])
  /\ UNCHANGED <<files, cache, genai, client, made, clr, lastPut>>

\* line 213: _load_image_bytes
LoadImageBytes(c) ==
  /\ t[c].pc = "load"
  /\ IF files[t[c].path] # Absent /\ Loadable(files[t[c].path])
     THEN Goto(c, [t[c] EXCEPT !.pc = "submit", !.idx = 1,
                     !.img = JpegOf(files[t[c].path])])
     ELSE ExtractorFailed(c, t[c])
  /\ UNCHANGED <<files, cache, genai, client, made, clr, lastPut>>

\* lines 217-222: executor.submit of the next sub-task, in the order of the
\* dict display
Submit(c) ==
  /\ t[c].pc = "submit"
  /\ Goto(c, [t[c] EXCEPT !.task[LabelOrder[t[c].idx]] = "queued",
                !.idx = IF t[c].idx = Len(LabelOrder) THEN 1 ELSE @ + 1,
                !.pc = IF t[c].idx = Len(LabelOrder) THEN "collect" ELSE "submit"])
  /\ UNCHANGED <<files, cache, genai, client, made, clr, lastPut>>

\* a worker thread runs _extract_<k> up to the backend call: the import of
\* google.genai.types (lines 67, 103, 137, 171, outside the try), then
\* _get_client's test of self._client (line 44)
TaskStart(c, k) ==
  /\ t[c].task[k] = "queued"
  /\ IF ~genai THEN Goto(c, [t[c] EXCEPT !.task[k] = "raised"])
     ELSE IF client = 0 THEN Goto(c, [t[c] EXCEPT !.task[k] = "mkclient"])
     ELSE Goto(c, [t[c] EXCEPT !.task[k] = "call", !.nInfer = @ + 1])
  /\ UNCHANGED <<files, cache, genai, client, made, clr, lastPut>>

\* _get_client lines 45-47: construct the client and assign self._client; a
\* failure is caught by the sub-task's except clause, which returns ""
GetClient(c, k, ok) ==
  /\ t[c].task[k] = "mkclient"
  /\ IF ok
     THEN /\ made' = made + 1
          /\ client' = made + 1
          /\ Goto(c, [t[c] EXCEPT !.task[k] = "call", !.nInfer = @ + 1])
     ELSE /\ UNCHANGED <<made, client>>
          /\ Goto(c, [t[c] EXCEPT !.task[k] = "done",
                        !.raw[k] = [kind |-> "noclient", text |-> <<>>],
                        !.ret[k] = <<>>])
  /\ UNCHANGED <<files, cache, genai, clr, lastPut>>

\* a backend that stamps its answer: the letter of the prompt, then one "+"
\* for every sub-task of the call that had finished when it answered
StampedText(tc, k) ==
  <<Letter(k)>> \o [i \in 1..Cardinality({j \in Labels : tc.task[j] \in {"done", "raised"}}) |-> "+"]

OrderResponses(tc, k) == {RespError, RespText(StampedText(tc, k))}

\* what _extract_<k> returns for a backend response: response.text.strip(),
\* or "" from the except clause
TaskReturn(r) == IF r.kind = "text" THEN Strip(r.text) ELSE <<>>

\* generate_content answers; the sub-task returns
GenerateContent(c, k, r) ==
  /\ t[c].task[k] = "call"
  /\ Goto(c, [t[c] EXCEPT !.task[k] = "done", !.raw[k] = r, !.ret[k] = TaskReturn(r)])
  /\ UNCHANGED <<files, cache, genai, client, made, clr, lastPut>>

Finished(tc, k) == tc.task[k] \in {"done", "raised"}

\* line 223: f.result() of the next future, in the order of the dict; an
\* exception of the sub-task is raised again here and leaves the with block
FutureResult(c) ==
  /\ t[c].pc = "collect"
  /\ Finished(t[c], LabelOrder[t[c].idx])
  /\ IF t[c].task[LabelOrder[t[c].idx]] = "raised"
     THEN Goto(c, [t[c] EXCEPT !.pc = "shutdown", !.exc = TRUE])
     ELSE Goto(c, [t[c] EXCEPT !.idx = @ + 1,
                     !.pc = IF t[c].idx = Len(LabelOrder) THEN "shutdown" ELSE "collect"])
  /\ UNCHANGED <<files, cache, genai, client, made, clr, lastPut>>

\* the place of a field in the result
FieldIndex(f) == CHOOSE i \in 1..Len(FieldOrder) : FieldOrder[i] = f

\* mutant: the i-th field takes the text of the sub-task that answered i-th,
\* told by the length of a stamped text
AssembleByCompletion(results) ==
  [f \in Fields |->
     IF \E k \in Labels : Len(results[k]) = FieldIndex(f)
     THEN results[CHOOSE k \in Labels : Len(results[k]) = FieldIndex(f)]
     ELSE results[CHOOSE k \in Labels : FieldOf(k) = f]]

\* the TextExtractionResult of lines 225-230
Assemble(results) == [f \in Fields |-> results[CHOOSE k \in Labels : FieldOf(k) = f]]

\* mutant: executor.shutdown(wait=False)
PoolNotJoined(tc) == TRUE

\* the end of the with block: executor.shutdown(wait=True) joins the workers
PoolJoined(tc) == \A k \in Labels : tc.task[k] = "none" \/ Finished(tc, k)

\* the with block ends; then lines 225-234, and lines 67-70 of the service
ExecutorShutdown(c) ==
  /\ t[c].pc = "shutdown"
  /\ PoolJoined(t[c])
  /\ IF t[c].exc
     THEN ExtractorFailed(c, t[c])
     ELSE LET res == Assemble(t[c].ret)
          IN IF Truthy(res)
             THEN Goto(c, [t[c] EXCEPT !.pc = "save_md5", !.result = [ok |-> TRUE, d |-> res]])
             ELSE Return(c, [t[c] EXCEPT !.result = [ok |-> TRUE, d |-> res]], "result", res)
  /\ UNCHANGED <<files, cache, genai, client, made, clr, lastPut>>

----------------------------------------------------------------------------
(* FileManager.save_ocr_cache *)

\* save_ocr_cache(filepath, data) called on its own: lines 145-147
SaveOcrCacheCall(c, filepath, data) ==
  /\ t[c].pc = "idle"
  /\ Goto(c, [Fresh EXCEPT !.pc = "save_md5", !.id = filepath, !.path = filepath,
                           !.bytes0 = files[filepath],
                           !.rec0 = RecordOf(files[filepath]),
                           !.clears0 = clr.n,
                           !.result = [ok |-> TRUE, d |-> data]])
  /\ UNCHANGED <<files, cache, genai, client, made, clr, lastPut>>

\* line 148: calculate_md5; a missing file raises out of extract
SaveOcrCacheMd5(c) ==
  /\ t[c].pc = "save_md5"
  /\ IF files[t[c].path] # Absent
     THEN Goto(c, [t[c] EXCEPT !.pc = "save_open", !.nPut = @ + 1,
                     !.key = CalculateMd5(t[c].path)])
     ELSE Return(c, [t[c] EXCEPT !.nPut = @ + 1], "raised", BlankRecord)
  /\ UNCHANGED <<files, cache, genai, client, made, clr, lastPut>>

\* mutant: the file is opened without truncation
SaveOcrCacheOpenKeep(c, ok) ==
  /\ t[c].pc = "save_open"
  /\ IF ok
     THEN /\ cache' = [cache EXCEPT ![GetCachePath(t[c].key)] = FileOf(@.data)]
          /\ Goto(c, [t[c] EXCEPT !.pc = "save_write", !.woff = 0, !.wlive = TRUE,
                        !.buf = JsonDump(ToDict(t[c].result.d))])
     ELSE /\ UNCHANGED cache
          /\ Return(c, t[c], "raised", BlankRecord)
  /\ UNCHANGED <<files, genai, client, made, clr, lastPut>>

\* line 150: open(cache_path, 'w') creates or truncates the file; an OSError
\* raises out of extract
SaveOcrCacheOpen(c, ok) ==
  /\ t[c].pc = "save_open"
  /\ IF ok
     THEN /\ cache' = [cache EXCEPT ![GetCachePath(t[c].key)] = FileOf(<<>>)]
          /\ Goto(c, [t[c] EXCEPT !.pc = "save_write", !.woff = 0, !.wlive = TRUE,
                        !.buf = JsonDump(ToDict(t[c].result.d))])
     ELSE /\ UNCHANGED cache
          /\ Return(c, t[c], "raised", BlankRecord)
  /\ UNCHANGED <<files, genai, client, made, clr, lastPut>>

\* line 151 and the end of the with block: the buffered writer hands the
\* next BufSize tokens to the OS at the handle's own offset; after the last
\* flush the file is closed and extract returns the result (line 70). A
\* failed write raises out of extract and leaves what was written.
SaveOcrCacheWrite(c, ok) ==
  /\ t[c].pc = "save_write"
  /\ LET p == GetCachePath(t[c].key)
         upto == Min(t[c].woff + BufSize, Len(t[c].buf))
         chunk == SubSeq(t[c].buf, t[c].woff + 1, upto)
         tc == [t[c] EXCEPT !.woff = upto]
     IN IF ok
        THEN /\ cache' = IF t[c].wlive
                         THEN [cache EXCEPT ![p] = FileOf(WriteAt(@.data, t[c].woff, chunk))]
                         ELSE cache
             /\ IF upto = Len(t[c].buf)
                THEN /\ Return(c, [tc EXCEPT !.wlive = FALSE], "result", t[c].result.d)
                     /\ lastPut' = [lastPut EXCEPT ![p] = c]
                ELSE /\ Goto(c, tc)
                     /\ UNCHANGED lastPut
        ELSE /\ Return(c, [t[c] EXCEPT !.wlive = FALSE], "raised", BlankRecord)
             /\ UNCHANGED <<cache, lastPut>>
  /\ UNCHANGED <<files, genai, client, made, clr>>

----------------------------------------------------------------------------
(* clear_cache *)

UploadPaths == {p \in ImagePaths : p.dir = "static/uploads"}

\* lines 53-58: the request starts with os.listdir('static/processed')
ClearCacheBegin ==
  /\ clr.pc = "idle"
  /\ clr' = [pc |-> "processed", todo |-> {p \in CachePaths : cache[p].exists},
             n |-> clr.n + 1]
  /\ UNCHANGED <<files, cache, genai, client, made, t, log, lastPut>>

\* lines 59-68: one item of the listing; os.unlink if it still is a file.
\* A thread that has the file open keeps writing to the unlinked file.
ClearCacheUnlink(item) ==
  /\ clr.pc \in {"processed", "uploads"}
  /\ item \in clr.todo
  /\ clr' = [clr EXCEPT !.todo = @ \ {item}]
  /\ IF clr.pc = "processed"
     THEN /\ cache' = [cache EXCEPT ![item] = NoFile]
          /\ t' = [c \in Callers |->
                     IF t[c].pc = "save_write" /\ GetCachePath(t[c].key) = item
                     THEN [t[c] EXCEPT !.wlive = FALSE] ELSE t[c]]
          /\ UNCHANGED files
     ELSE /\ files' = [files EXCEPT ![item] = Absent]
          /\ UNCHANGED <<cache, t>>
  /\ UNCHANGED <<genai, client, made, log, lastPut>>

\* the listing is exhausted: go on to 'static/uploads', or answer (line 70)
ClearCacheNextDir ==
  /\ clr.pc \in {"processed", "uploads"}
  /\ clr.todo = {}
  /\ clr' = IF clr.pc = "processed"
            THEN [clr EXCEPT !.pc = "uploads",
                             !.todo = {p \in UploadPaths : files[p] # Absent}]
            ELSE [clr EXCEPT !.pc = "idle"]
  /\ UNCHANGED <<files, cache, genai, client, made, t, log, lastPut>>

----------------------------------------------------------------------------
(* FileManager.save_uploaded_file *)

\* file.save(filepath) under a given filename: the file of that name in
\* static/uploads is created or replaced
SaveUploadedFile(filename, bytes) ==
  /\ files' = [files EXCEPT ![UploadPath(filename)] = bytes]
  /\ files' # files
  /\ UNCHANGED <<cache, genai, client, made, t, log, clr, lastPut>>

----------------------------------------------------------------------------
(* Specifications *)

\* no request is being served
Quiet == clr.pc = "idle" /\ \A c \in Callers : t[c].pc = "idle"

\* a server that serves one request at a time: extract requests of one
\* client and clear_cache requests
Next ==
  \/ \E c \in SeqCallers, id \in Ids :
       Quiet /\ Len(log[c]) < MaxCalls /\ ExtractCall(c, id)
  \/ \E c \in SeqCallers : FileExists(c)
  \/ \E c \in SeqCallers : GetOcrCacheMd5(c)
  \/ \E c \in SeqCallers : GetOcrCacheExists(c)
  \/ \E c \in SeqCallers : GetOcrCacheLoad(c)
  \/ \E c \in SeqCallers : LoadImageBytes(c)
  \/ \E c \in SeqCallers : Submit(c)
  \/ \E c \in SeqCallers, k \in Labels : TaskStart(c, k)
  \/ \E c \in SeqCallers, k \in Labels : \E r \in SeqResponses(k) : GenerateContent(c, k, r)
  \/ \E c \in SeqCallers : FutureResult(c)
  \/ \E c \in SeqCallers : ExecutorShutdown(c)
  \/ \E c \in SeqCallers : SaveOcrCacheMd5(c)
  \/ \E c \in SeqCallers, ok \in BOOLEAN : SaveOcrCacheOpen(c, ok)
  \/ \E c \in SeqCallers, ok \in BOOLEAN : SaveOcrCacheWrite(c, ok)
  \/ Quiet /\ clr.n < MaxClears /\ ClearCacheBegin
  \/ \E item \in CachePaths \cup UploadPaths : ClearCacheUnlink(item)
  \/ ClearCacheNextDir

Spec == InitServed /\ [][Next]_vars

\* the first extract request of a fresh process, every schedule of its four
\* workers
NextTask ==
  \/ \E c \in SeqCallers, id \in Ids : log[c] = <<>> /\ ExtractCall(c, id)
  \/ \E c \in SeqCallers : FileExists(c)
  \/ \E c \in SeqCallers : GetOcrCacheMd5(c)
  \/ \E c \in SeqCallers : GetOcrCacheExists(c)
  \/ \E c \in SeqCallers : LoadImageBytes(c)
  \/ \E c \in SeqCallers : Submit(c)
  \/ \E c \in SeqCallers, k \in Labels : TaskStart(c, k)
  \/ \E c \in SeqCallers, k \in Labels, ok \in BOOLEAN : GetClient(c, k, ok)
  \/ \E c \in SeqCallers, k \in Labels : \E r \in Responses(k) : GenerateContent(c, k, r)
  \/ \E c \in SeqCallers : FutureResult(c)
  \/ \E c \in SeqCallers : ExecutorShutdown(c)
  \/ \E c \in SeqCallers : SaveOcrCacheMd5(c)
  \/ \E c \in SeqCallers, ok \in BOOLEAN : SaveOcrCacheOpen(c, ok)
  \/ \E c \in SeqCallers, ok \in BOOLEAN : SaveOcrCacheWrite(c, ok)

SpecTask == Init /\ [][NextTask]_vars

\* the first extract request of a fresh process, every schedule of its four
\* workers, with the answers of SeqResponses
NextLive ==
  \/ \E c \in SeqCallers, id \in Ids : log[c] = <<>> /\ ExtractCall(c, id)
  \/ \E c \in SeqCallers : FileExists(c)
  \/ \E c \in SeqCallers : GetOcrCacheMd5(c)
  \/ \E c \in SeqCallers : GetOcrCacheExists(c)
  \/ \E c \in SeqCallers : LoadImageBytes(c)
  \/ \E c \in SeqCallers : Submit(c)
  \/ \E c \in SeqCallers, k \in Labels : TaskStart(c, k)
  \/ \E c \in SeqCallers, k \in Labels, ok \in BOOLEAN : GetClient(c, k, ok)
  \/ \E c \in SeqCallers, k \in Labels : \E r \in SeqResponses(k) : GenerateContent(c, k, r)
  \/ \E c \in SeqCallers : FutureResult(c)
  \/ \E c \in SeqCallers : ExecutorShutdown(c)
  \/ \E c \in SeqCallers : SaveOcrCacheMd5(c)
  \/ \E c \in SeqCallers, ok \in BOOLEAN : SaveOcrCacheOpen(c, ok)
  \/ \E c \in SeqCallers, ok \in BOOLEAN : SaveOcrCacheWrite(c, ok)

\* every thread that can take a step is scheduled in the end, and every
\* inference call returns or fails in the end
SpecLive == Init /\ [][NextLive]_vars /\ WF_vars(NextLive)

\* two request threads, one extract request each, on a healthy disk
NextConc ==
  \/ \E c \in Callers, id \in Ids : log[c] = <<>> /\ ExtractCall(c, id)
  \/ \E c \in Callers : FileExists(c)
  \/ \E c \in Callers : GetOcrCacheMd5(c)
  \/ \E c \in Callers : GetOcrCacheExists(c)
  \/ \E c \in Callers : GetOcrCacheLoad(c)
  \/ \E c \in Callers : LoadImageBytes(c)
  \/ \E c \in Callers : Submit(c)
  \/ \E c \in Callers, k \in Labels : TaskStart(c, k)
  \/ \E c \in Callers, k \in Labels : \E r \in ConcResponses(k) : GenerateContent(c, k, r)
  \/ \E c \in Callers : FutureResult(c)
  \/ \E c \in Callers : ExecutorShutdown(c)
  \/ \E c \in Callers : SaveOcrCacheMd5(c)
  \/ \E c \in Callers : SaveOcrCacheOpen(c, TRUE)
  \/ \E c \in Callers : SaveOcrCacheWrite(c, TRUE)

SpecConc == InitConc /\ [][NextConc]_vars

\* a logged call was a save_ocr_cache call made on its own
IsPut(e) == e.nGet = 0 /\ e.nPut = 1

Puts(c) == {i \in 1..Len(log[c]) : IsPut(log[c][i])}

\* FileManager used on a store left by earlier runs, on a healthy disk: up
\* to MaxPuts save_ocr_cache calls and one extract request, one after another
NextStore ==
  \/ \E c \in SeqCallers, p \in ImagePaths, d \in StoreRecords :
       Quiet /\ Cardinality(Puts(c)) < MaxPuts /\ SaveOcrCacheCall(c, p, d)
  \/ \E c \in SeqCallers, id \in Ids :
       Quiet /\ Len(log[c]) = Cardinality(Puts(c)) /\ ExtractCall(c, id)
  \/ \E c \in SeqCallers : FileExists(c)
  \/ \E c \in SeqCallers : GetOcrCacheMd5(c)
  \/ \E c \in SeqCallers : GetOcrCacheExists(c)
  \/ \E c \in SeqCallers : GetOcrCacheLoad(c)
  \/ \E c \in SeqCallers : LoadImageBytes(c)
  \/ \E c \in SeqCallers : Submit(c)
  \/ \E c \in SeqCallers, k \in Labels : TaskStart(c, k)
  \/ \E c \in SeqCallers, k \in Labels : \E r \in SeqResponses(k) : GenerateContent(c, k, r)
  \/ \E c \in SeqCallers : FutureResult(c)
  \/ \E c \in SeqCallers : ExecutorShutdown(c)
  \/ \E c \in SeqCallers : SaveOcrCacheMd5(c)
  \/ \E c \in SeqCallers : SaveOcrCacheOpen(c, TRUE)
  \/ \E c \in SeqCallers : SaveOcrCacheWrite(c, TRUE)

SpecStore == InitStore /\ [][NextStore]_vars

\* one extract request whose backend answers are stamped with the order in
\* which the four sub-tasks finish, on a healthy disk
NextOrder ==
  \/ \E c \in SeqCallers, id \in Ids : log[c] = <<>> /\ ExtractCall(c, id)
  \/ \E c \in SeqCallers : FileExists(c)
  \/ \E c \in SeqCallers : GetOcrCacheMd5(c)
  \/ \E c \in SeqCallers : GetOcrCacheExists(c)
  \/ \E c \in SeqCallers : LoadImageBytes(c)
  \/ \E c \in SeqCallers : Submit(c)
  \/ \E c \in SeqCallers, k \in Labels : TaskStart(c, k)
  \/ \E c \in SeqCallers, k \in Labels :
       \E r \in OrderResponses(t[c], k) : GenerateContent(c, k, r)
  \/ \E c \in SeqCallers : FutureResult(c)
  \/ \E c \in SeqCallers : ExecutorShutdown(c)
  \/ \E c \in SeqCallers : SaveOcrCacheMd5(c)
  \/ \E c \in SeqCallers : SaveOcrCacheOpen(c, TRUE)
  \/ \E c \in SeqCallers : SaveOcrCacheWrite(c, TRUE)

SpecOrder == InitConc /\ [][NextOrder]_vars

\* one extract request served while clear_cache and uploads run on other
\* request threads, on a healthy disk
NextEnv ==
  \/ \E c \in SeqCallers, id \in Ids : log[c] = <<>> /\ ExtractCall(c, id)
  \/ \E c \in SeqCallers : FileExists(c)
  \/ \E c \in SeqCallers : GetOcrCacheMd5(c)
  \/ \E c \in SeqCallers : GetOcrCacheExists(c)
  \/ \E c \in SeqCallers : GetOcrCacheLoad(c)
  \/ \E c \in SeqCallers : LoadImageBytes(c)
  \/ \E c \in SeqCallers : Submit(c)
  \/ \E c \in SeqCallers, k \in Labels : TaskStart(c, k)
  \/ \E c \in SeqCallers, k \in Labels : \E r \in SeqResponses(k) : GenerateContent(c, k, r)
  \/ \E c \in SeqCallers : FutureResult(c)
  \/ \E c \in SeqCallers : ExecutorShutdown(c)
  \/ \E c \in SeqCallers : SaveOcrCacheMd5(c)
  \/ \E c \in SeqCallers : SaveOcrCacheOpen(c, TRUE)
  \/ \E c \in SeqCallers : SaveOcrCacheWrite(c, TRUE)
  \/ clr.n < MaxClears /\ ClearCacheBegin
  \/ \E item \in CachePaths \cup UploadPaths : ClearCacheUnlink(item)
  \/ ClearCacheNextDir
  \/ \E bytes \in {"b1", "b2"} : SaveUploadedFile("u2", bytes)

SpecEnv == InitEnv /\ [][NextEnv]_vars

----------------------------------------------------------------------------
(* Properties *)

\* the frame of thread c belongs to a call that has returned
Done(c) == t[c].pc = "idle" /\ log[c] # <<>>

\* the frame of thread c belongs to a call, running or returned
Framed(c) == t[c].pc # "idle" \/ log[c] # <<>>

\* the call of the frame missed the cache and loaded the image
Missed(c) == t[c].img # ""

\* sub-task k of the frame failed: it raised, or its except clause returned ""
FailedTask(tc, k) ==
  \/ tc.task[k] = "raised"
  \/ tc.task[k] = "done" /\ tc.raw[k].kind # "text"

FailedSet(tc) == {k \in Labels : FailedTask(tc, k)}

NoTask(tc) == \A k \in Labels : tc.task[k] = "none"

\* the cache file holds a complete four-field record
Complete(file) ==
  /\ file.exists
  /\ JsonLoad(file.data).ok
  /\ DOMAIN JsonLoad(file.data).d = Fields

\* C1: a call on an existing file whose fingerprint has a record in the store
\* starts no sub-task, makes no inference call and no put, and returns the
\* result built from the four fields of that record.
C1_CacheHitShortCircuit ==
  \A c \in Callers :
    (Framed(c) /\ t[c].bytes0 # Absent /\ Complete(t[c].rec0))
      => /\ NoTask(t[c])
         /\ t[c].nInfer = 0
         /\ t[c].nPut = 0
         /\ t[c].pc \in {"file_exists", "gc_md5", "gc_exists", "gc_load", "idle"}
         /\ Done(c) => /\ t[c].out.kind = "result"
                       /\ t[c].out.d = JsonLoad(t[c].rec0.data).d

C1_Witness ==
  \E c \in Callers :
    /\ Done(c) /\ t[c].bytes0 # Absent /\ Complete(t[c].rec0)
    /\ t[c].out.kind = "result"
    /\ \E f \in Fields : t[c].out.d[f] # <<>>

\* C2: two calls in a row on the same loadable bytes, the store empty for
\* the fingerprint before the first and no clear_cache in between, end alike
\* with equal results, and the second makes no inference call.
C2_CacheIdempotence ==
  \A c \in Callers :
    Len(log[c]) >= 2 =>
      LET a == log[c][1]
          b == log[c][2]
      IN (/\ a.bytes # Absent /\ Loadable(a.bytes) /\ b.bytes = a.bytes
          /\ ~a.rec0.exists
          /\ a.clears0 = b.clears1)
         => /\ a.kind # "raised"
            /\ b.kind = a.kind
            /\ b.d = a.d
            /\ b.nInfer = 0

\* C3: the cache key is the digest of the file's bytes, whatever its path;
\* after a call that returned a result, a call on another path with the same
\* bytes (no clear_cache in between) is a hit: same result, no sub-task, no
\* inference call, no put.
C3_ContentAddressedKey ==
  \A c \in Callers :
    /\ t[c].pc \in {"gc_exists", "gc_load", "save_open", "save_write"}
         => t[c].key = Md5Hex(t[c].bytes0)
    /\ \A i, j \in 1..Len(log[c]) :
         (/\ i < j
          /\ log[c][i].kind = "result"
          /\ log[c][j].bytes = log[c][i].bytes
          /\ log[c][j].id # log[c][i].id
          /\ log[c][j].clears1 = log[c][i].clears1)
         => /\ log[c][j].kind = "result"
            /\ log[c][j].d = log[c][i].d
            /\ log[c][j].nTasks = 0
            /\ log[c][j].nInfer = 0
            /\ log[c][j].nPut = 0

C3_Witness ==
  \E c \in Callers :
    /\ Len(log[c]) >= 2
    /\ log[c][1].kind = "result" /\ log[c][1].nInfer > 0 /\ log[c][1].nPut = 1
    /\ log[c][2].bytes = log[c][1].bytes
    /\ log[c][2].id # log[c][1].id
    /\ log[c][2].clears1 = log[c][1].clears1
    /\ log[c][2].kind = "result" /\ log[c][2].nInfer = 0

\* C4: a call that missed the cache and in which exactly one sub-task failed
\* returns a result whose field of that sub-task is empty and whose other
\* three fields are the backend's texts (trimmed, as the sub-tasks return
\* them).
C4_FanOutIsolation ==
  \A c \in Callers :
    (Done(c) /\ Missed(c) /\ Cardinality(FailedSet(t[c])) = 1)
      => /\ t[c].out.kind = "result"
         /\ \A k \in Labels :
              t[c].out.d[FieldOf(k)] =
                (IF FailedTask(t[c], k) THEN <<>> ELSE Strip(t[c].raw[k].text))

\* C5: a call that missed the cache on a loadable image and in which all four
\* sub-tasks failed returns a result with four empty fields.
C5_FullFailureDegradation ==
  \A c \in Callers :
    (Done(c) /\ Missed(c) /\ FailedSet(t[c]) = Labels)
      => /\ t[c].out.kind = "result"
         /\ t[c].out.d = BlankRecord

\* C6: a call whose identifier resolves to no file returns None after the
\* existence test: no cache read, no cache write, no sub-task, no inference
\* call.
C6_NotFoundPropagation ==
  \A c \in Callers :
    (Framed(c) /\ t[c].bytes0 = Absent)
      => /\ t[c].pc \in {"file_exists", "idle"}
         /\ t[c].nGet = 0
         /\ t[c].nPut = 0
         /\ t[c].nInfer = 0
         /\ NoTask(t[c])
         /\ ~t[c].obs.read
         /\ Done(c) => t[c].out.kind = "none"

C6_Witness ==
  \E c \in Callers :
    /\ Done(c) /\ t[c].bytes0 = Absent /\ t[c].out.kind = "none"
    /\ \E p \in CachePaths : cache[p].exists

\* C7: on a miss all four sub-tasks are dispatched; the result is assembled
\* only when all four have returned; whichever sub-tasks failed, every
\* sub-task has run to its end when extract returns, and none is running.
C7_FanInBarrier ==
  \A c \in Callers :
    /\ t[c].pc \in {"collect", "shutdown", "save_md5", "save_open", "save_write"}
         => \A k \in Labels : t[c].task[k] # "none"
    /\ t[c].result.ok => \A k \in Labels : t[c].task[k] = "done"
    /\ t[c].pc = "idle" => \A k \in Labels : t[c].task[k] \in {"none", "done", "raised"}
    /\ (t[c].pc = "idle" /\ Missed(c)) => \A k \in Labels : Finished(t[c], k)

C7_Witness ==
  \E c \in Callers :
    /\ Done(c) /\ Missed(c)
    /\ t[c].out.kind = "result"
    /\ FailedSet(t[c]) # {} /\ FailedSet(t[c]) # Labels
    /\ \A k \in Labels : t[c].task[k] = "done"

\* C8: a get_ocr_cache that reads a cache file reads a complete record,
\* never an empty or partly written one.
C8_AtomicPut ==
  \A c \in Callers :
    t[c].obs.read => Complete(FileOf(t[c].obs.data))

\* C9: when two calls for the same fingerprint have both saved and returned,
\* the cache file is the complete record of the save that returned last, and
\* each call has returned the result it computed.
C9_LastWriterWins ==
  \A c1, c2 \in Callers :
    (/\ c1 # c2 /\ Done(c1) /\ Done(c2)
     /\ t[c1].nPut = 1 /\ t[c2].nPut = 1
     /\ t[c1].key = t[c2].key
     /\ lastPut[GetCachePath(t[c1].key)] = c1)
    => /\ t[c1].out.kind = "result" /\ t[c1].out.d = t[c1].result.d
       /\ t[c2].out.kind = "result" /\ t[c2].out.d = t[c2].result.d
       /\ cache[GetCachePath(t[c1].key)] = FileOf(JsonDump(ToDict(t[c1].out.d)))

\* C10: a call that has assembled its result returns that result, also when
\* writing the cache file fails.
C10_WriteFailureNotFatal ==
  \A c \in Callers :
    (Done(c) /\ t[c].result.ok)
      => /\ t[c].out.kind = "result"
         /\ t[c].out.d = t[c].result.d

\* the frame of thread c belongs to an extract call, not to a save on its own
Extracting(c) == Framed(c) /\ ~(t[c].nGet = 0 /\ t[c].result.ok)

\* the last two calls of thread c, both returned
Last(c) == log[c][Len(log[c])]
Prev(c) == log[c][Len(log[c]) - 1]

\* C11: an extract call on a loadable file whose cache file is corrupt or is
\* not a four-field object misses: it extracts afresh and returns that
\* result; nothing is raised.
C11_CorruptionIsMiss ==
  \A c \in Callers :
    (/\ Done(c) /\ Extracting(c)
     /\ t[c].bytes0 # Absent /\ Loadable(t[c].bytes0)
     /\ t[c].rec0.exists /\ ~Complete(t[c].rec0))
    => /\ Missed(c)
       /\ t[c].out.kind = "result"
       /\ t[c].out.d = t[c].result.d

\* C12: a save_ocr_cache of a four-field record that returned, followed at
\* once by the get_ocr_cache of an extract call on a file with the same
\* bytes: the get returns a dict equal to the record in all four fields.
C12_StoreRoundTrip ==
  \A c \in Callers :
    (/\ Done(c) /\ Extracting(c) /\ Len(log[c]) >= 2
     /\ IsPut(Prev(c)) /\ Prev(c).kind = "result"
     /\ t[c].bytes0 = Prev(c).bytes)
    => /\ t[c].cached.ok
       /\ t[c].cached.d = Prev(c).d
       /\ t[c].out.kind = "result"
       /\ t[c].out.d = Prev(c).d

C12_Witness ==
  \E c \in Callers :
    /\ Done(c) /\ Extracting(c) /\ Len(log[c]) >= 2
    /\ IsPut(Prev(c)) /\ Prev(c).kind = "result"
    /\ t[c].bytes0 = Prev(c).bytes
    /\ t[c].id # Prev(c).id
    /\ Prev(c).d = RecordWith(<<" ", "A", "A">>)
    /\ t[c].cached.d = Prev(c).d

\* C14: after a save_ocr_cache that returned, the cache file of the
\* fingerprint is exactly the serialized record of that call, whatever the
\* file held before: an earlier record leaves no trace, nothing is
\* appended, and saving the same record again changes nothing.
C14_PutOverwrites ==
  \A c \in Callers :
    (/\ Quiet /\ log[c] # <<>>
     /\ IsPut(Last(c)) /\ Last(c).kind = "result")
    => cache[GetCachePath(Md5Hex(Last(c).bytes))] = FileOf(JsonDump(ToDict(Last(c).d)))

C14_Witness ==
  \E c \in Callers :
    /\ Quiet /\ Len(log[c]) >= 2
    /\ IsPut(Last(c)) /\ Last(c).kind = "result"
    /\ IsPut(Prev(c)) /\ Prev(c).kind = "result"
    /\ Prev(c).bytes = Last(c).bytes
    /\ Prev(c).d = RecordWith(<<" ", "A", "A">>)
    /\ Last(c).d = BlankRecord
    /\ cache[GetCachePath(Md5Hex(Last(c).bytes))] = FileOf(JsonDump(BlankRecord))

\* C13: whatever the order in which the four sub-tasks finish, each field of
\* the assembled result is what the sub-task of its own label returned, and
\* that result is the one extract returns.
C13_LabelKeyedAssembly ==
  \A c \in Callers :
    /\ t[c].result.ok
         => \A k \in Labels : t[c].result.d[FieldOf(k)] = TaskReturn(t[c].raw[k])
    /\ (Done(c) /\ t[c].result.ok)
         => /\ t[c].out.kind = "result"
            /\ \A k \in Labels : t[c].out.d[FieldOf(k)] = TaskReturn(t[c].raw[k])

C13_Witness ==
  \E c \in Callers :
    /\ Done(c) /\ t[c].out.kind = "result"
    /\ t[c].raw["seo"].text = <<"S">>
    /\ t[c].raw["description"].text = <<"D", "+">>
    /\ t[c].raw["markdown"].text = <<"M", "+", "+">>
    /\ t[c].raw["ascii"].text = <<"A", "+", "+", "+">>
    /\ t[c].out.d["ascii_diagram"] = <<"A", "+", "+", "+">>
    /\ t[c].out.d["seo_keywords"] = <<"S">>

\* C15: an extract call on a file that exists but cannot be loaded as an
\* image returns None without dispatching a sub-task, calling the backend or
\* touching the store; the next call on the same bytes is no hit: it looks
\* the cache up, finds nothing and ends the same way.
C15_UnloadableWritesNothing ==
  \A c \in Callers :
    /\ (Extracting(c) /\ t[c].bytes0 # Absent /\ ~Loadable(t[c].bytes0))
         => /\ NoTask(t[c])
            /\ t[c].nInfer = 0
            /\ t[c].nPut = 0
            /\ ~t[c].rec0.exists
            /\ RecordOf(t[c].bytes0) = t[c].rec0
            /\ Done(c) => t[c].out.kind = "none"
    /\ \A i \in 1..Len(log[c]) :
         (log[c][i].bytes # Absent /\ ~Loadable(log[c][i].bytes))
           => /\ log[c][i].kind = "none"
              /\ log[c][i].nGet = 1
              /\ log[c][i].nTasks = 0
              /\ log[c][i].nPut = 0

C15_Witness ==
  \E c \in Callers :
    /\ Len(log[c]) >= 2
    /\ log[c][1].bytes = "b3" /\ log[c][2].bytes = "b3"
    /\ log[c][1].kind = "none" /\ log[c][2].kind = "none"
    /\ log[c][2].nGet = 1 /\ log[c][2].nPut = 0
    /\ \A p \in CachePaths : ~cache[p].exists

\* C18: a call that missed, had one or more sub-tasks fail and returned its
\* result has stored it: every later call on the same bytes, with no
\* clear_cache in between, returns the same result with the same empty
\* fields, as a hit: no sub-task, no inference call, no put.
C18_DegradedResultsCached ==
  \A c \in Callers :
    \A i, j \in 1..Len(log[c]) :
      (/\ i < j
       /\ log[c][i].kind = "result" /\ log[c][i].nTasks > 0
       /\ \E f \in Fields : log[c][i].d[f] = <<>>
       /\ log[c][j].bytes = log[c][i].bytes
       /\ log[c][j].clears0 = log[c][i].clears1)
      => /\ log[c][j].kind = "result"
         /\ \A f \in Fields : log[c][j].d[f] = log[c][i].d[f]
         /\ log[c][j].nTasks = 0
         /\ log[c][j].nInfer = 0
         /\ log[c][j].nPut = 0

C18_Witness ==
  \E c \in Callers :
    /\ Len(log[c]) >= 2
    /\ log[c][1].kind = "result" /\ log[c][1].nTasks = 4
    /\ log[c][1].d = BlankRecord
    /\ log[c][2].bytes = log[c][1].bytes
    /\ log[c][2].clears0 = log[c][1].clears1
    /\ log[c][2].kind = "result" /\ log[c][2].d = BlankRecord
    /\ log[c][2].nInfer = 0

\* C16: no step of an extract call removes a record: a cache file that holds
\* a complete record holds a complete record after every step that is not a
\* step of clear_cache.
C16_RecordsNeverRemoved ==
  [][\A p \in CachePaths :
       (Complete(cache[p]) /\ clr' = clr) => Complete(cache'[p])]_vars

\* C20: the extractor constructs its client at most once, and a sub-task
\* that runs _get_client afterwards uses that client.
C20_ClientConstructedOnce ==
  /\ made <= 1
  /\ client \in {0, 1}

\* C17: a call that puts a record stores it under the fingerprint it looked
\* up, and the record was computed from the image of the bytes that have
\* that fingerprint.
C17_SingleFingerprint ==
  \A c \in Callers :
    (Extracting(c) /\ t[c].nPut = 1 /\ t[c].pc \in {"save_open", "save_write", "idle"})
      => /\ t[c].key = t[c].key0
         /\ \E b \in Contents : Md5Hex(b) = t[c].key /\ t[c].img = JpegOf(b)

\* C19: an extract call served while clear_cache runs returns a result or
\* None; it raises nothing.
C19_RobustToClearing ==
  \A c \in Callers :
    (Done(c) /\ Extracting(c)) => t[c].out.kind \in {"result", "none"}

\* C22: an extract call that finds a cache file holding a JSON object: if
\* the object has any of the four fields the call is a hit, returns the
\* fields present as stored and the missing ones as empty texts, and starts
\* no sub-task, inference call or put; if the object is empty the call
\* misses, extracts afresh and overwrites the file with the new record.
C22_HitOnIncompleteRecord ==
  \A c \in Callers :
    (/\ Done(c) /\ Extracting(c)
     /\ t[c].bytes0 # Absent /\ Loadable(t[c].bytes0)
     /\ t[c].rec0.exists /\ JsonLoad(t[c].rec0.data).ok)
    => LET d == JsonLoad(t[c].rec0.data).d
       IN IF DOMAIN d # {}
          THEN /\ t[c].out.kind = "result"
               /\ \A f \in Fields :
                    t[c].out.d[f] = (IF f \in DOMAIN d THEN d[f] ELSE <<>>)
               /\ NoTask(t[c])
               /\ t[c].nInfer = 0
               /\ t[c].nPut = 0
               /\ RecordOf(t[c].bytes0) = t[c].rec0
          ELSE /\ Missed(c)
               /\ \A k \in Labels : t[c].task[k] = "done"
               /\ t[c].out.kind = "result"
               /\ t[c].nPut = 1
               /\ RecordOf(t[c].bytes0) = FileOf(JsonDump(ToDict(t[c].out.d)))

C22_Witness ==
  \E c \in Callers :
    /\ Done(c) /\ Extracting(c)
    /\ t[c].rec0 = FileOf(<<"{", "ascii_diagram", "A", "}">>)
    /\ t[c].out.kind = "result"
    /\ t[c].out.d = [RecordWith(<<"A">>) EXCEPT !["markdown_text"] = <<>>,
                                                !["description"] = <<>>,
                                                !["seo_keywords"] = <<>>]
    /\ t[c].nInfer = 0

\* C21: a call that has started returns in the end, with a result or None,
\* whatever the schedule of the four workers; and while a sub-task of the
\* call is still running the call has not returned.
C21_ExtractTerminates ==
  /\ \A c \in Callers :
       (t[c].pc # "idle") ~> (t[c].pc = "idle" /\ t[c].out.kind \in {"result", "none"})
  /\ [](\A c \in Callers :
          (\E k \in Labels : t[c].task[k] \in {"queued", "mkclient", "call"})
            => t[c].pc # "idle")

====
